---------------------------- MODULE Spec2Model ----------------------------
(***************************************************************************)
(* iprs: properties of IP CIDR blocks.  A network value is an address and  *)
(* a prefix length; the operations summarize it, split it into subnets of  *)
(* a longer prefix, or pick one such subnet with a drawn number.           *)
(*                                                                         *)
(* Unsigned integers of the address family's width are bit vectors:        *)
(* sequences of 0/1, most significant bit first, of length BITS.  That     *)
(* keeps the width of every operation (u32 needs more than TLC's integers  *)
(* hold) and makes the bit operations of the code literal.                 *)
(***************************************************************************)
EXTENDS Integers, Sequences, FiniteSets, TLC

VARIABLES ip, mask, pc, op, rnd, rng_calls, shifts, output, result, address

vars == <<ip, mask, pc, op, rnd, rng_calls, shifts, output, result, address>>

---------------------------------------------------------------------------
(* Bounds of the model. *)

\* Width of the scaled-down address family whose inputs are enumerated in full.
SmallBITS == 4

\* A split is run only when it yields at most 2^MaxDelta subnets.
MaxDelta == 4

Pow2(k) == 2 ^ k

(* Program constants. *)
V4BITS == 32
V6BITS == 128
\* The largest u8, the type of every prefix-length argument.
U8MAX == Pow2(8) - 1

---------------------------------------------------------------------------
(* Fixed-width unsigned integers. *)

Min(a, b) == IF a <= b THEN a ELSE b
Max(a, b) == IF a >= b THEN a ELSE b

\* A bit vector given bit by bit, most significant bit first, as a sequence.
Bits(f) == f \o <<>>

Zero(BITS) == Bits([i \in 1..BITS |-> 0])
One(BITS) == Bits([i \in 1..BITS |-> IF i = BITS THEN 1 ELSE 0])
MAX(BITS) == Bits([i \in 1..BITS |-> 1])

Values(BITS) == [1..BITS -> {0, 1}]

BitNot(v) == Bits([i \in 1..Len(v) |-> 1 - v[i]])
BitAnd(a, b) == Bits([i \in 1..Len(a) |-> a[i] * b[i]])
BitOr(a, b) == Bits([i \in 1..Len(a) |-> IF a[i] + b[i] >= 1 THEN 1 ELSE 0])

\* v << k.  A shift amount >= the width is an overflow: a panic with overflow
\* checks, else the amount is taken modulo the width.  The value here is the
\* latter; the callers record every amount they shift by.
Shl(v, k) ==
  LET W == Len(v)
      s == k % W
  IN Bits([i \in 1..W |-> IF i + s <= W THEN v[i + s] ELSE 0])

\* The carries of a + b + cin, from the least significant bit up: acc[j + 1]
\* is the carry into bit j, and the last one is the carry out.  CarrySeq
\* extends acc up to the carry out of bit `last`.
RECURSIVE CarrySeq(_, _, _, _)
CarrySeq(a, b, acc, last) ==
  LET j == Len(acc)
      W == Len(a)
  IN IF j > last THEN acc
     ELSE CarrySeq(a, b,
            Append(acc, IF a[W - j + 1] + b[W - j + 1] + acc[j] >= 2 THEN 1 ELSE 0),
            last)

\* The carry chain, sixteen bits at a time.
RECURSIVE CarryBlocks(_, _, _)
CarryBlocks(a, b, acc) ==
  IF Len(acc) > Len(a) THEN acc
  ELSE CarryBlocks(a, b, CarrySeq(a, b, acc, Min(Len(acc) + 15, Len(a))))

\* a + b + cin over the width of a: the wrapped sum and the carry out.
AddC(a, b, cin) ==
  LET W == Len(a)
      c == CarryBlocks(a, b, <<cin>>)
  IN [sum |-> Bits([i \in 1..W |-> (a[i] + b[i] + c[W - i + 1]) % 2]), carry |-> c[W + 1]]

wrapping_add(a, b) == AddC(a, b, 0).sum
wrapping_sub(a, b) == AddC(a, BitNot(b), 1).sum

saturating_add(a, b) ==
  LET r == AddC(a, b, 0) IN IF r.carry = 1 THEN MAX(Len(a)) ELSE r.sum
saturating_sub(a, b) ==
  LET r == AddC(a, BitNot(b), 1) IN IF r.carry = 0 THEN Zero(Len(a)) ELSE r.sum

\* a < b, as unsigned numbers.
Less(a, b) ==
  LET differ == {i \in 1..Len(a) : a[i] # b[i]}
  IN differ # {} /\ a[CHOOSE i \in differ : \A j \in differ : i <= j] = 0

LessEq(a, b) == a = b \/ Less(a, b)

leading_zeros(v) ==
  LET ones == {i \in 1..Len(v) : v[i] = 1}
  IN IF ones = {} THEN Len(v) ELSE (CHOOSE i \in ones : \A j \in ones : i <= j) - 1

trailing_zeros(v) ==
  LET ones == {i \in 1..Len(v) : v[i] = 1}
  IN IF ones = {} THEN Len(v) ELSE Len(v) - (CHOOSE i \in ones : \A j \in ones : i >= j)

\* The number a bit vector stands for, and back (widths TLC's integers hold).
ToNat(v) ==
  LET f[i \in 0..Len(v)] == IF i = 0 THEN 0 ELSE 2 * f[i - 1] + v[i]
  IN f[Len(v)]

FromNat(BITS, n) == Bits([i \in 1..BITS |-> (n \div Pow2(BITS - i)) % 2])

\* An IPv6 address from its eight 16-bit segments.
Ip6(a, b, c, d, e, f, g, h) ==
  FromNat(16, a) \o FromNat(16, b) \o FromNat(16, c) \o FromNat(16, d)
    \o FromNat(16, e) \o FromNat(16, f) \o FromNat(16, g) \o FromNat(16, h)

\* An IPv4 address from its dotted-quad octets.
Ip4(a, b, c, d) == FromNat(8, a) \o FromNat(8, b) \o FromNat(8, c) \o FromNat(8, d)

---------------------------------------------------------------------------
(* Network values (ipnet's Ipv4Net / Ipv6Net, by width). *)

Net(addr, prefix) == [addr |-> addr, prefix |-> prefix]

BitsOf(net) == Len(net.addr)

\* The top `prefix` bits set.
netmask(net) == Bits([i \in 1..BitsOf(net) |-> IF i <= net.prefix THEN 1 ELSE 0])
hostmask(net) == Bits([i \in 1..BitsOf(net) |-> IF i <= net.prefix THEN 0 ELSE 1])

network(net) == BitAnd(net.addr, netmask(net))
broadcast(net) == BitOr(net.addr, hostmask(net))

Ok(v) == [kind |-> "Ok", value |-> v]
Err(e, a, b) == [kind |-> "Err", error |-> e, args |-> <<a, b>>]
PrefixLenError == [kind |-> "Err", error |-> "PrefixLen", args |-> <<>>]

\* Ipv4Net::new / Ipv6Net::new: the prefix length is checked against the width.
from_addr_prefix(addr, prefix) ==
  IF prefix > Len(addr) THEN PrefixLenError ELSE Ok(Net(addr, prefix))

\* The next subnet of the range start..end, no larger than min_prefix_len allows.
next_subnet(start, end, min_prefix_len) ==
  LET W == Len(start)
      range == saturating_add(saturating_sub(end, start), One(W))
  IN IF range = MAX(W) /\ min_prefix_len = 0
     THEN Net(start, min_prefix_len)
     ELSE LET range_bits == Max(Max(W - leading_zeros(range), 0) - 1, 0)
              start_tz == trailing_zeros(start)
              new_prefix_len == W - Min(range_bits, start_tz)
          IN Net(start, Max(new_prefix_len, min_prefix_len))

\* The subnets iterator, run to its end: the sequence of items it yields.
RECURSIVE subnets_iter(_, _, _)
subnets_iter(start, end, min_prefix_len) ==
  IF Less(start, end)
  THEN LET next == next_subnet(start, end, min_prefix_len)
           start2 == saturating_add(broadcast(next), One(Len(start)))
           end2 == IF start2 = broadcast(next) THEN Zero(Len(end)) ELSE end
       IN <<next>> \o subnets_iter(start2, end2, min_prefix_len)
  ELSE IF start = end
  THEN <<next_subnet(start, end, min_prefix_len)>>
  ELSE <<>>

\* Ipv4Net::subnets / Ipv6Net::subnets.
subnets(net, new_prefix_len) ==
  IF net.prefix > new_prefix_len \/ new_prefix_len > BitsOf(net)
  THEN PrefixLenError
  ELSE Ok(subnets_iter(network(net), broadcast(net), new_prefix_len))

---------------------------------------------------------------------------
(* Output lines written to the context. *)

HeaderLine(family, net) == [line |-> "header", family |-> family, net |-> net]
SplitTitleLine == [line |-> "[Split network]"]
NetworkLine(subnet) ==
  [line |-> "Network", addr |-> subnet.addr, broadcast |-> broadcast(subnet)]
format_attribute(name, value) == [line |-> name, value |-> value]

Panic == [kind |-> "panic"]

---------------------------------------------------------------------------
(* Deterministic split. *)

\* The loop leaves out the last subnet.
split_DropsLast(net, m) ==
  LET head == <<HeaderLine("ip", net), SplitTitleLine>>
      subs == subnets(net, m)
  IN IF subs.kind = "Ok"
     THEN [output |-> head \o [i \in 1..(Len(subs.value) - 1) |-> NetworkLine(subs.value[i])],
           result |-> Ok(<<>>)]
     ELSE [output |-> head,
           result |-> Err("SplitSmallerThanPrefixLen", m, net.prefix)]

\* The subnets are written last first.
split_Reversed(net, m) ==
  LET head == <<HeaderLine("ip", net), SplitTitleLine>>
      subs == subnets(net, m)
  IN IF subs.kind = "Ok"
     THEN [output |-> head \o [i \in 1..Len(subs.value) |->
                                 NetworkLine(subs.value[Len(subs.value) + 1 - i])],
           result |-> Ok(<<>>)]
     ELSE [output |-> head,
           result |-> Err("SplitSmallerThanPrefixLen", m, net.prefix)]

\* NetworkDisplay::split: the lines written and the value returned.
split(net, m) ==
  LET head == <<HeaderLine("ip", net), SplitTitleLine>>
      subs == subnets(net, m)
  IN IF subs.kind = "Ok"
     THEN [output |-> head \o [i \in 1..Len(subs.value) |-> NetworkLine(subs.value[i])],
           result |-> Ok(<<>>)]
     ELSE [output |-> head,
           result |-> Err("SplitSmallerThanPrefixLen", m, net.prefix)]

\* Interface for Ipv4Net::split.
ipv4_split(net, m) ==
  LET head == <<HeaderLine("ipv4", net), SplitTitleLine>>
      subs == subnets(net, m)
  IN IF subs.kind = "Ok"
     THEN [output |-> head \o [i \in 1..Len(subs.value) |-> NetworkLine(subs.value[i])],
           result |-> Ok(<<>>)]
     ELSE [output |-> head,
           result |-> Err("SplitSmallerThanPrefixLen", m, net.prefix)]

ErrLine == [line |-> "-[ERR : Oversized splitmask]"]

\* The error of the subnet computation is returned, as the generic split does.
ipv6_split_Propagates(net, m) ==
  LET head == <<HeaderLine("ipv6", net), SplitTitleLine>>
      subs == subnets(net, m)
  IN IF subs.kind = "Ok"
     THEN [output |-> head \o [i \in 1..Len(subs.value) |-> NetworkLine(subs.value[i])],
           result |-> Ok(<<>>)]
     ELSE [output |-> head,
           result |-> Err("SplitSmallerThanPrefixLen", m, net.prefix)]

\* Interface for Ipv6Net::split.
ipv6_split(net, m) ==
  LET head == <<HeaderLine("ipv6", net), SplitTitleLine>>
      subs == subnets(net, m)
  IN IF subs.kind = "Ok"
     THEN [output |-> head \o [i \in 1..Len(subs.value) |-> NetworkLine(subs.value[i])],
           result |-> Ok(<<>>)]
     ELSE [output |-> head \o <<ErrLine>>, result |-> Ok(<<>>)]

---------------------------------------------------------------------------
(* Random split. *)

\* The values random_range(zero()..MAX) can return: the range is half-open.
random_range(BITS) == {v \in Values(BITS) : Less(v, MAX(BITS))}

\* The drawn values tried for the 32-bit family (the full range is 2^32 - 1 values).
Draws32 ==
  {Ip4(34, 86, 183, 34), Ip4(33, 25, 245, 44), Ip4(230, 141, 13, 62),
   Ip4(255, 255, 255, 254)}

\* The drawn values tried for the 128-bit family:
\* 7a18:549a:ecb0:5573:edfc:fa96:d303:ce5b, 45c0:b8e4:e243:4159:439c:d13d:3e2a:8c80,
\* 4cc7:8e7:b232:e2dd:4920:68b5:e628:406f and MAX - 1.
Draws128 ==
  {Ip6(31256, 21658, 60592, 21875, 60924, 64150, 54019, 52827),
   Ip6(17856, 47332, 57923, 16729, 17308, 53565, 15914, 35968),
   Ip6(19655, 2279, 45618, 58077, 18720, 26805, 58920, 16495),
   Ip6(65535, 65535, 65535, 65535, 65535, 65535, 65535, 65534)}

Draws(BITS) ==
  IF BITS = V4BITS THEN Draws32
  ELSE IF BITS = V6BITS THEN Draws128
  ELSE random_range(BITS)

NotDrawn(res) == [result |-> res, rnd |-> <<>>, shifts |-> <<>>]

\* The input's bits beyond its prefix are not cleared before the merge.
generate_random_split_HostBits(net, split_len, r) ==
  LET BITS == BitsOf(net)
  IN IF split_len <= net.prefix
     THEN NotDrawn(Err("SplitSmallerThanPrefixLen", split_len, net.prefix))
     ELSE IF split_len > BITS
     THEN NotDrawn(Err("SplitTooBig", BITS, split_len))
     ELSE
       LET split_mask ==
             BitNot(wrapping_sub(Shl(One(BITS), BITS - split_len), One(BITS)))
       IN IF net.prefix = 0
          THEN [result |-> from_addr_prefix(BitAnd(r, split_mask), split_len),
                rnd |-> <<r>>,
                shifts |-> <<BITS - split_len>>]
          ELSE
            LET supernet_mask ==
                  wrapping_sub(Shl(One(BITS), BITS - net.prefix), One(BITS))
                new_address == BitOr(net.addr, BitAnd(r, supernet_mask))
            IN [result |-> from_addr_prefix(BitAnd(new_address, split_mask), split_len),
                rnd |-> <<r>>,
                shifts |-> <<BITS - split_len, BITS - net.prefix>>]

\* The value is drawn before the arguments are validated.
generate_random_split_DrawsFirst(net, split_len, r) ==
  LET BITS == BitsOf(net)
  IN IF split_len <= net.prefix
     THEN [result |-> Err("SplitSmallerThanPrefixLen", split_len, net.prefix),
           rnd |-> <<r>>,
           shifts |-> <<>>]
     ELSE IF split_len > BITS
     THEN [result |-> Err("SplitTooBig", BITS, split_len),
           rnd |-> <<r>>,
           shifts |-> <<>>]
     ELSE
       LET split_mask ==
             BitNot(wrapping_sub(Shl(One(BITS), BITS - split_len), One(BITS)))
       IN IF net.prefix = 0
          THEN [result |-> from_addr_prefix(BitAnd(r, split_mask), split_len),
                rnd |-> <<r>>,
                shifts |-> <<BITS - split_len>>]
          ELSE
            LET supernet_mask ==
                  wrapping_sub(Shl(One(BITS), BITS - net.prefix), One(BITS))
                new_address ==
                  BitOr(BitAnd(net.addr, BitNot(supernet_mask)), BitAnd(r, supernet_mask))
            IN [result |-> from_addr_prefix(BitAnd(new_address, split_mask), split_len),
                rnd |-> <<r>>,
                shifts |-> <<BITS - split_len, BITS - net.prefix>>]

\* The validation compares with < where the code has <=.
generate_random_split_Strict(net, split_len, r) ==
  LET BITS == BitsOf(net)
  IN IF split_len < net.prefix
     THEN NotDrawn(Err("SplitSmallerThanPrefixLen", split_len, net.prefix))
     ELSE IF split_len > BITS
     THEN NotDrawn(Err("SplitTooBig", BITS, split_len))
     ELSE
       LET split_mask ==
             BitNot(wrapping_sub(Shl(One(BITS), BITS - split_len), One(BITS)))
           supernet_mask ==
             wrapping_sub(Shl(One(BITS), BITS - net.prefix), One(BITS))
           new_address ==
             BitOr(BitAnd(net.addr, BitNot(supernet_mask)), BitAnd(r, supernet_mask))
       IN [result |-> from_addr_prefix(BitAnd(new_address, split_mask), split_len),
           rnd |-> <<r>>,
           shifts |-> <<BITS - split_len, BITS - net.prefix>>]

\* The supernet's fixed bits are not merged in: the drawn value is masked alone.
generate_random_split_NoSupernet(net, split_len, r) ==
  LET BITS == BitsOf(net)
  IN IF split_len <= net.prefix
     THEN NotDrawn(Err("SplitSmallerThanPrefixLen", split_len, net.prefix))
     ELSE IF split_len > BITS
     THEN NotDrawn(Err("SplitTooBig", BITS, split_len))
     ELSE
       LET split_mask ==
             BitNot(wrapping_sub(Shl(One(BITS), BITS - split_len), One(BITS)))
       IN [result |-> from_addr_prefix(BitAnd(r, split_mask), split_len),
           rnd |-> <<r>>,
           shifts |-> <<BITS - split_len>>]

\* The supernet mask is one bit short: the first free bit comes from the input.
generate_random_split_ShortMask(net, split_len, r) ==
  LET BITS == BitsOf(net)
  IN IF split_len <= net.prefix
     THEN NotDrawn(Err("SplitSmallerThanPrefixLen", split_len, net.prefix))
     ELSE IF split_len > BITS
     THEN NotDrawn(Err("SplitTooBig", BITS, split_len))
     ELSE
       LET split_mask ==
             BitNot(wrapping_sub(Shl(One(BITS), BITS - split_len), One(BITS)))
       IN IF net.prefix = 0
          THEN [result |-> from_addr_prefix(BitAnd(r, split_mask), split_len),
                rnd |-> <<r>>,
                shifts |-> <<BITS - split_len>>]
          ELSE
            LET supernet_mask ==
                  wrapping_sub(Shl(One(BITS), BITS - net.prefix - 1), One(BITS))
                new_address ==
                  BitOr(BitAnd(net.addr, BitNot(supernet_mask)), BitAnd(r, supernet_mask))
            IN [result |-> from_addr_prefix(BitAnd(new_address, split_mask), split_len),
                rnd |-> <<r>>,
                shifts |-> <<BITS - split_len, BITS - net.prefix - 1>>]

\* The check against the width is missing.
generate_random_split_NoTooBig(net, split_len, r) ==
  LET BITS == BitsOf(net)
  IN IF split_len <= net.prefix
     THEN NotDrawn(Err("SplitSmallerThanPrefixLen", split_len, net.prefix))
     ELSE
       LET split_mask ==
             BitNot(wrapping_sub(Shl(One(BITS), BITS - split_len), One(BITS)))
       IN IF net.prefix = 0
          THEN [result |-> from_addr_prefix(BitAnd(r, split_mask), split_len),
                rnd |-> <<r>>,
                shifts |-> <<BITS - split_len>>]
          ELSE
            LET supernet_mask ==
                  wrapping_sub(Shl(One(BITS), BITS - net.prefix), One(BITS))
                new_address ==
                  BitOr(BitAnd(net.addr, BitNot(supernet_mask)), BitAnd(r, supernet_mask))
            IN [result |-> from_addr_prefix(BitAnd(new_address, split_mask), split_len),
                rnd |-> <<r>>,
                shifts |-> <<BITS - split_len, BITS - net.prefix>>]

\* NetworkDisplay::generate_random_split with r the value the generator returns:
\* the result, the values drawn and the shift amounts executed, in order.
generate_random_split(net, split_len, r) ==
  LET BITS == BitsOf(net)
  IN IF split_len <= net.prefix
     THEN NotDrawn(Err("SplitSmallerThanPrefixLen", split_len, net.prefix))
     ELSE IF split_len > BITS
     THEN NotDrawn(Err("SplitTooBig", BITS, split_len))
     ELSE
       LET random_number == r
           split_mask ==
             BitNot(wrapping_sub(Shl(One(BITS), BITS - split_len), One(BITS)))
       IN IF net.prefix = 0
          THEN [result |-> from_addr_prefix(BitAnd(random_number, split_mask), split_len),
                rnd |-> <<r>>,
                shifts |-> <<BITS - split_len>>]
          ELSE
            LET supernet_mask ==
                  wrapping_sub(Shl(One(BITS), BITS - net.prefix), One(BITS))
                new_address ==
                  BitOr(BitAnd(net.addr, BitNot(supernet_mask)),
                        BitAnd(random_number, supernet_mask))
                new_prefix == BitAnd(new_address, split_mask)
            IN [result |-> from_addr_prefix(new_prefix, split_len),
                rnd |-> <<r>>,
                shifts |-> <<BITS - split_len, BITS - net.prefix>>]

\* ipv4.rs ipv4_random_split_generate_address: the same steps with the literal 32.
ipv4_random_split_generate_address(net, split_len, r) ==
  IF split_len <= net.prefix
  THEN NotDrawn(Err("SplitSmallerThanPrefixLen", split_len, net.prefix))
  ELSE IF split_len > 32
  THEN NotDrawn(Err("SplitTooBig", 32, split_len))
  ELSE
    LET random_number == r
        split_mask == BitNot(wrapping_sub(Shl(One(32), 32 - split_len), One(32)))
    IN IF net.prefix = 0
       THEN [result |-> from_addr_prefix(BitAnd(random_number, split_mask), split_len),
             rnd |-> <<r>>,
             shifts |-> <<32 - split_len>>]
       ELSE
         LET supernet_mask == wrapping_sub(Shl(One(32), 32 - net.prefix), One(32))
             new_address ==
               BitOr(BitAnd(net.addr, BitNot(supernet_mask)),
                     BitAnd(random_number, supernet_mask))
             new_prefix == BitAnd(new_address, split_mask)
         IN [result |-> from_addr_prefix(new_prefix, split_len),
             rnd |-> <<r>>,
             shifts |-> <<32 - split_len, 32 - net.prefix>>]

\* The bound of the validation is the one of the IPv4 copy.
ipv6_random_split_generate_address_CopiedBound(net, split_len, r) ==
  IF split_len <= net.prefix
  THEN NotDrawn(Err("SplitSmallerThanPrefixLen", split_len, net.prefix))
  ELSE IF split_len > 32
  THEN NotDrawn(Err("SplitTooBig", 32, split_len))
  ELSE
    LET split_mask == BitNot(wrapping_sub(Shl(One(128), 128 - split_len), One(128)))
    IN IF net.prefix = 0
       THEN [result |-> from_addr_prefix(BitAnd(r, split_mask), split_len),
             rnd |-> <<r>>,
             shifts |-> <<128 - split_len>>]
       ELSE
         LET supernet_mask == wrapping_sub(Shl(One(128), 128 - net.prefix), One(128))
             new_address ==
               BitOr(BitAnd(net.addr, BitNot(supernet_mask)), BitAnd(r, supernet_mask))
         IN [result |-> from_addr_prefix(BitAnd(new_address, split_mask), split_len),
             rnd |-> <<r>>,
             shifts |-> <<128 - split_len, 128 - net.prefix>>]

\* ipv6.rs random_split_generate_address: the same steps with the literal 128.
ipv6_random_split_generate_address(net, split_len, r) ==
  IF split_len <= net.prefix
  THEN NotDrawn(Err("SplitSmallerThanPrefixLen", split_len, net.prefix))
  ELSE IF split_len > 128
  THEN NotDrawn(Err("SplitTooBig", 128, split_len))
  ELSE
    LET random_number == r
        split_mask == BitNot(wrapping_sub(Shl(One(128), 128 - split_len), One(128)))
    IN IF net.prefix = 0
       THEN [result |-> from_addr_prefix(BitAnd(random_number, split_mask), split_len),
             rnd |-> <<r>>,
             shifts |-> <<128 - split_len>>]
       ELSE
         LET supernet_mask == wrapping_sub(Shl(One(128), 128 - net.prefix), One(128))
             new_address ==
               BitOr(BitAnd(net.addr, BitNot(supernet_mask)),
                     BitAnd(random_number, supernet_mask))
             new_prefix == BitAnd(new_address, split_mask)
         IN [result |-> from_addr_prefix(new_prefix, split_len),
             rnd |-> <<r>>,
             shifts |-> <<128 - split_len, 128 - net.prefix>>]

---------------------------------------------------------------------------
(* Summaries. *)

\* 2^exp in the width BITS: the wrapped value and whether it overflowed.
pow2(BITS, exp) ==
  IF exp < BITS
  THEN [value |-> Shl(One(BITS), exp), overflowed |-> FALSE]
  ELSE [value |-> Zero(BITS), overflowed |-> TRUE]

\* 2.saturating_pow(exp)
saturating_pow2(BITS, exp) ==
  LET r == pow2(BITS, exp)
  IN IF r.overflowed THEN MAX(BITS) ELSE r.value

\* 2.pow(exp): with overflow checks an overflow panics, without them it wraps.
unchecked_pow2(BITS, exp, overflow_checks) ==
  LET r == pow2(BITS, exp)
  IN IF r.overflowed /\ overflow_checks THEN Panic ELSE Ok(r.value)

\* Ranges::addresses_in_network
addresses_in_network(net) == saturating_pow2(BitsOf(net), BitsOf(net) - net.prefix)

\* Ranges::network_range
network_range(net) == <<network(net), broadcast(net)>>

None == [kind |-> "None"]
Some(v) == [kind |-> "Some", value |-> v]

\* The guard is off by one: a usable range is also given for prefix length BITS-1.
usable_range_Off(net) ==
  IF net.prefix > BitsOf(net) - 1
  THEN None
  ELSE LET first == saturating_add(network(net), One(BitsOf(net)))
           last == saturating_sub(broadcast(net), One(BitsOf(net)))
       IN Some(<<first, last>>)

\* The ends are not moved inwards: the range is the whole network range.
usable_range_Inclusive(net) ==
  IF net.prefix > BitsOf(net) - 2
  THEN None
  ELSE Some(<<network(net), broadcast(net)>>)

\* Ranges::usable_range
usable_range(net) ==
  IF net.prefix > BitsOf(net) - 2
  THEN None
  ELSE LET first == saturating_add(network(net), One(BitsOf(net)))
           last == saturating_sub(broadcast(net), One(BitsOf(net)))
       IN Some(<<first, last>>)

\* Interface for Ipv4Net::summarize: the lines written.
ipv4_summarize(net) ==
  <<HeaderLine("ipv4", net),
    format_attribute("Host address", net.addr),
    format_attribute("Host address (decimal)", net.addr),
    format_attribute("Host address (hex)", net.addr),
    format_attribute("Network address", network(net)),
    format_attribute("Network mask", netmask(net)),
    format_attribute("Network mask (bits)", net.prefix),
    format_attribute("Network mask (hex)", netmask(net)),
    format_attribute("Broadcast address", broadcast(net)),
    format_attribute("Cisco wildcard", BitNot(netmask(net))),
    format_attribute("Addresses in network", addresses_in_network(net)),
    format_attribute("Network range", network_range(net))>>
  \o (IF usable_range(net).kind = "Some"
      THEN <<format_attribute("Usable range", usable_range(net).value)>>
      ELSE <<>>)

\* PrintableProperties for Ipv6Net::address_type, from the first segment's bits.
address_type(net) ==
  LET first_segment == SubSeq(net.addr, 1, 16)
  IN IF SubSeq(first_segment, 1, 3) = <<0, 0, 1>>
     THEN "Aggregatable Global Unicast Addresses"
     ELSE IF SubSeq(first_segment, 1, 7) = <<1, 1, 1, 1, 1, 1, 0>>
     THEN "Unique Local Unicast"
     ELSE IF SubSeq(first_segment, 1, 10) = <<1, 1, 1, 1, 1, 1, 1, 0, 1, 0>>
     THEN "Link-Scoped Unicast"
     ELSE IF SubSeq(first_segment, 1, 8) = <<1, 1, 1, 1, 1, 1, 1, 1>>
     THEN "Multicast"
     ELSE "Reserved by IETF"

\* Interface for Ipv6Net::summarize: the lines written.
ipv6_summarize(net) ==
  <<HeaderLine("ipv6", net),
    [line |-> "[IPV6 INFO]"],
    format_attribute("Expanded Address", net.addr),
    format_attribute("Compressed Address", net.addr),
    format_attribute("Subnet Prefix (masked)", Net(BitAnd(netmask(net), net.addr), net.prefix)),
    format_attribute("Address ID (masked)", Net(BitAnd(hostmask(net), net.addr), net.prefix)),
    format_attribute("Prefix address", netmask(net)),
    format_attribute("Prefix length", net.prefix),
    format_attribute("Address type", address_type(net)),
    format_attribute("Network range", network(net)),
    format_attribute(" ", broadcast(net))>>

\* NetworkSummarize::summarize, Interface for IpNet::summarize: by address family.
summarize(net) ==
  IF BitsOf(net) = V6BITS THEN ipv6_summarize(net) ELSE ipv4_summarize(net)

\* The lines of the older summary printers up to the addresses-in-network line.
PrintHead(net) ==
  <<HeaderLine("ipv4", net),
    format_attribute("Host address", net.addr),
    format_attribute("Host address (decimal)", net.addr),
    format_attribute("Host address (hex)", net.addr),
    format_attribute("Network address", network(net)),
    format_attribute("Network mask", netmask(net)),
    format_attribute("Network mask (bits)", net.prefix),
    format_attribute("Network mask (hex)", netmask(net)),
    format_attribute("Broadcast address", broadcast(net)),
    format_attribute("Cisco wildcard", BitNot(netmask(net)))>>

\* The lines from the addresses-in-network line on.
PrintTail(net, addresses) ==
  LET network_range_start == network(net)
      network_range_end == broadcast(net)
      usable_range_start ==
        IF net.prefix < 31
        THEN wrapping_add(network_range_start, One(32))
        ELSE network_range_start
      usable_range_end ==
        IF net.prefix < 31
        THEN wrapping_sub(network_range_end, One(32))
        ELSE network_range_end
  IN <<format_attribute("Addresses in network", addresses),
       format_attribute("Network range", <<network_range_start, network_range_end>>),
       format_attribute("Usable range", <<usable_range_start, usable_range_end>>)>>

\* Ipv4Subnet::print: the lines printed and how it ends.
Ipv4Subnet_print(net, overflow_checks) ==
  LET addresses_in_net == unchecked_pow2(32, 32 - net.prefix, overflow_checks)
  IN IF addresses_in_net.kind = "panic"
     THEN [output |-> PrintHead(net), result |-> Panic]
     ELSE [output |-> PrintHead(net) \o PrintTail(net, addresses_in_net.value),
           result |-> Ok(<<>>)]

\* main, for a parsed IPv4 network: the lines printed and how it ends.
main(net, overflow_checks) ==
  LET addresses_in_net == unchecked_pow2(32, 32 - net.prefix, overflow_checks)
  IN IF addresses_in_net.kind = "panic"
     THEN [output |-> PrintHead(net), result |-> Panic]
     ELSE [output |-> PrintHead(net) \o PrintTail(net, addresses_in_net.value),
           result |-> Ok(<<>>)]

\* NetworkDisplay::summarize_random_split: the address is generated, then summarized.
summarize_random_split(net, split_len, r) ==
  LET g == generate_random_split(net, split_len, r)
  IN IF g.result.kind = "Ok"
     THEN [g EXCEPT !.result = Ok(<<>>)]
            @@ [output |-> summarize(g.result.value), address |-> g.result]
     ELSE g @@ [output |-> <<>>, address |-> g.result]

\* ipv4.rs ipv4_random_split_with_rng
ipv4_random_split_with_rng(net, split_len, r) ==
  LET g == ipv4_random_split_generate_address(net, split_len, r)
  IN IF g.result.kind = "Ok"
     THEN [g EXCEPT !.result = Ok(<<>>)]
            @@ [output |-> ipv4_summarize(g.result.value), address |-> g.result]
     ELSE g @@ [output |-> <<>>, address |-> g.result]

\* ipv6.rs random_split_with_rng
ipv6_random_split_with_rng(net, split_len, r) ==
  LET g == ipv6_random_split_generate_address(net, split_len, r)
  IN IF g.result.kind = "Ok"
     THEN [g EXCEPT !.result = Ok(<<>>)]
            @@ [output |-> ipv6_summarize(g.result.value), address |-> g.result]
     ELSE g @@ [output |-> <<>>, address |-> g.result]

---------------------------------------------------------------------------
(* Inputs. *)

\* The 128-bit addresses tried: 7a18:549a:ecb0:5573:edfc:fa96:d303:ce5b,
\* 1234:5678::, ffff:: and ::.
Addresses128 ==
  {Ip6(31256, 21658, 60592, 21875, 60924, 64150, 54019, 52827),
   Ip6(4660, 22136, 0, 0, 0, 0, 0, 0),
   Ip6(65535, 0, 0, 0, 0, 0, 0, 0),
   Zero(V6BITS)}

Addresses(BITS) ==
  IF BITS = V4BITS
  THEN {Ip4(1, 2, 3, 4), Ip4(182, 37, 233, 188), Zero(V4BITS), MAX(V4BITS)}
  ELSE IF BITS = V6BITS THEN Addresses128
  ELSE Values(BITS)

Widths == {SmallBITS, V4BITS, V6BITS}

\* The prefix lengths tried: all of them, but for the 128-bit family the ends
\* and the ones its tests use.
Prefixes(BITS) ==
  IF BITS = V6BITS THEN {0, 48, 64, 81, 127, 128} ELSE 0..BITS

\* The u8 arguments tried for a network of the given width and prefix.
SplitArgs(BITS, p) ==
  IF BITS = V4BITS
  THEN {0, p, p + 1, p + 3, 24, 32, 33, U8MAX} \cap 0..U8MAX
  ELSE IF BITS = V6BITS
  THEN {0, 25, p, p + 1, p + 3, 64, 72, 128, 129, U8MAX} \cap 0..U8MAX
  ELSE 0..(BITS + 2) \cup {U8MAX}

Networks(BITS) == {Net(a, p) : a \in Addresses(BITS), p \in Prefixes(BITS)}

NoResult == [kind |-> "none"]

Init ==
  /\ \E BITS \in Widths :
       /\ ip \in Networks(BITS)
       /\ mask \in SplitArgs(BITS, ip.prefix)
  /\ pc = "start"
  /\ op = "none"
  /\ rnd = <<>>
  /\ rng_calls = 0
  /\ shifts = <<>>
  /\ output = <<>>
  /\ result = NoResult
  /\ address = NoResult

\* A split is run when it fails or yields at most 2^MaxDelta subnets.
SplitIsSmall == mask < ip.prefix \/ mask > BitsOf(ip) \/ mask - ip.prefix <= MaxDelta

IsV4 == BitsOf(ip) = V4BITS
IsV6 == BitsOf(ip) = V6BITS

Split ==
  /\ pc = "start"
  /\ SplitIsSmall
  /\ \E s \in {split(ip, mask)} :
        /\ output' = s.output
        /\ result' = s.result
  /\ op' = "split"
  /\ pc' = "done"
  /\ UNCHANGED <<ip, mask, rnd, rng_calls, shifts, address>>

Ipv4Split ==
  /\ pc = "start"
  /\ IsV4
  /\ SplitIsSmall
  /\ \E s \in {ipv4_split(ip, mask)} :
        /\ output' = s.output
        /\ result' = s.result
  /\ op' = "ipv4_split"
  /\ pc' = "done"
  /\ UNCHANGED <<ip, mask, rnd, rng_calls, shifts, address>>

Ipv6Split ==
  /\ pc = "start"
  /\ IsV6
  /\ SplitIsSmall
  /\ \E s \in {ipv6_split(ip, mask)} :
        /\ output' = s.output
        /\ result' = s.result
  /\ op' = "ipv6_split"
  /\ pc' = "done"
  /\ UNCHANGED <<ip, mask, rnd, rng_calls, shifts, address>>

SummarizeRandomSplit ==
  /\ pc = "start"
  /\ \E r \in Draws(BitsOf(ip)) :
       \E s \in {summarize_random_split(ip, mask, r)} :
          /\ output' = s.output
          /\ result' = s.result
          /\ address' = s.address
          /\ rnd' = s.rnd
          /\ rng_calls' = Len(s.rnd)
          /\ shifts' = s.shifts
  /\ op' = "random_split"
  /\ pc' = "done"
  /\ UNCHANGED <<ip, mask>>

Ipv4RandomSplit ==
  /\ pc = "start"
  /\ IsV4
  /\ \E r \in Draws(V4BITS) :
       \E s \in {ipv4_random_split_with_rng(ip, mask, r)} :
          /\ output' = s.output
          /\ result' = s.result
          /\ address' = s.address
          /\ rnd' = s.rnd
          /\ rng_calls' = Len(s.rnd)
          /\ shifts' = s.shifts
  /\ op' = "ipv4_random_split"
  /\ pc' = "done"
  /\ UNCHANGED <<ip, mask>>

Ipv6RandomSplit ==
  /\ pc = "start"
  /\ IsV6
  /\ \E r \in Draws(V6BITS) :
       \E s \in {ipv6_random_split_with_rng(ip, mask, r)} :
          /\ output' = s.output
          /\ result' = s.result
          /\ address' = s.address
          /\ rnd' = s.rnd
          /\ rng_calls' = Len(s.rnd)
          /\ shifts' = s.shifts
  /\ op' = "ipv6_random_split"
  /\ pc' = "done"
  /\ UNCHANGED <<ip, mask>>

Summarize ==
  /\ pc = "start"
  /\ output' = summarize(ip)
  /\ result' = Ok(<<>>)
  /\ op' = "summarize"
  /\ pc' = "done"
  /\ UNCHANGED <<ip, mask, rnd, rng_calls, shifts, address>>

Ipv4SubnetPrint ==
  /\ pc = "start"
  /\ IsV4
  /\ \E overflow_checks \in BOOLEAN :
       \E s \in {Ipv4Subnet_print(ip, overflow_checks)} :
          /\ output' = s.output
          /\ result' = s.result
  /\ op' = "print"
  /\ pc' = "done"
  /\ UNCHANGED <<ip, mask, rnd, rng_calls, shifts, address>>

Main ==
  /\ pc = "start"
  /\ IsV4
  /\ \E overflow_checks \in BOOLEAN :
       \E s \in {main(ip, overflow_checks)} :
          /\ output' = s.output
          /\ result' = s.result
  /\ op' = "main"
  /\ pc' = "done"
  /\ UNCHANGED <<ip, mask, rnd, rng_calls, shifts, address>>

Next ==
  \/ Split
  \/ Ipv4Split
  \/ Ipv6Split
  \/ SummarizeRandomSplit
  \/ Ipv4RandomSplit
  \/ Ipv6RandomSplit
  \/ Summarize
  \/ Ipv4SubnetPrint
  \/ Main

Spec == Init /\ [][Next]_vars

---------------------------------------------------------------------------
(* Properties. *)

SplitDone == pc = "done" /\ op \in {"split", "ipv4_split", "ipv6_split"}
RandomDone ==
  pc = "done" /\ op \in {"random_split", "ipv4_random_split", "ipv6_random_split"}

\* The "Network - addr - broadcast" lines of a split's output.
NetworkLines == SubSeq(output, 3, Len(output))

InLine(x, l) == LessEq(l.addr, x) /\ LessEq(x, l.broadcast)
InNetwork(x, net) == LessEq(network(net), x) /\ LessEq(x, broadcast(net))

\* The addresses looked up in a split's output: all of them where the family is
\* small enough, else the ends of the network and its own address.
CoverProbe(net) ==
  IF BitsOf(net) = SmallBITS
  THEN {x \in Values(SmallBITS) : InNetwork(x, net)}
  ELSE {network(net), broadcast(net), net.addr}

ValidSplit == ip.prefix < mask /\ mask <= BitsOf(ip)

\* C1: for a network of prefix p and a new prefix n with p < n <= BITS, split
\* yields exactly 2^(n-p) sub-networks, each of prefix length n (aligned to n
\* bits and ending at its own broadcast address), pairwise disjoint, all inside
\* the network's range, and every address of the network is in one of them.
C1_SplitCoverage ==
  (SplitDone /\ ValidSplit) =>
    LET ls == NetworkLines
    IN /\ result = Ok(<<>>)
       /\ Len(ls) = Pow2(mask - ip.prefix)
       /\ \A i \in 1..Len(ls) :
            /\ ls[i].addr = network(Net(ls[i].addr, mask))
            /\ ls[i].broadcast = broadcast(Net(ls[i].addr, mask))
            /\ InNetwork(ls[i].addr, ip)
            /\ InNetwork(ls[i].broadcast, ip)
       /\ \A i, j \in 1..Len(ls) :
            i < j => (Less(ls[i].broadcast, ls[j].addr) \/ Less(ls[j].broadcast, ls[i].addr))
       /\ \A x \in CoverProbe(ip) : \E i \in 1..Len(ls) : InLine(x, ls[i])

\* 1.2.3.4/25 split to /28 has printed its eight networks.
C1_Witness ==
  /\ SplitDone
  /\ ip = Net(Ip4(1, 2, 3, 4), 25)
  /\ mask = 28
  /\ Len(NetworkLines) = 8
  /\ NetworkLines[8] = [line |-> "Network", addr |-> Ip4(1, 2, 3, 112),
                        broadcast |-> Ip4(1, 2, 3, 127)]

\* C2: split with a new prefix length <= the network's prefix length, the equal
\* case included, fails with SplitSmallerThanPrefixLen(new, prefix) and prints no
\* sub-network.
C2_SplitRejectsNotLonger ==
  (SplitDone /\ mask <= ip.prefix) =>
    /\ result = Err("SplitSmallerThanPrefixLen", mask, ip.prefix)
    /\ Len(NetworkLines) = 0

\* C3: split with a new prefix length > BITS fails with SplitTooBig(BITS, new).
C3_SplitTooBig ==
  (SplitDone /\ mask > BitsOf(ip)) =>
    result = Err("SplitTooBig", BitsOf(ip), mask)

\* C4: random_split fails exactly when n <= p or n > BITS: with
\* SplitSmallerThanPrefixLen(n, p) when n <= p, with SplitTooBig(BITS, n) when
\* n > BITS, and it returns a network value in every other case.
C4_RandomSplitErrors ==
  RandomDone =>
    IF mask <= ip.prefix
    THEN /\ address = Err("SplitSmallerThanPrefixLen", mask, ip.prefix)
         /\ result = address
    ELSE IF mask > BitsOf(ip)
    THEN /\ address = Err("SplitTooBig", BitsOf(ip), mask)
         /\ result = address
    ELSE /\ address.kind = "Ok"
         /\ result = Ok(<<>>)

\* A random split to the largest u8 has failed with SplitTooBig.
C4_Witness ==
  /\ RandomDone
  /\ mask = U8MAX
  /\ ip.prefix = 0
  /\ result = Err("SplitTooBig", BitsOf(ip), U8MAX)

\* C5: the network random_split returns is one of the sub-networks split
\* produces for the same arguments: it has prefix length n, its bits beyond n
\* are zero and its address lies in the input network's range; where the split
\* is small enough to run, one of its lines is that network.
C5_RandomSplitContained ==
  (RandomDone /\ address.kind = "Ok") =>
    LET chosen == address.value
    IN /\ chosen.prefix = mask
       /\ chosen.addr = network(chosen)
       /\ InNetwork(chosen.addr, ip)
       /\ InNetwork(broadcast(chosen), ip)
       /\ SplitIsSmall =>
            \E s \in {split(ip, mask)} :
              \E i \in 3..Len(s.output) : s.output[i] = NetworkLine(chosen)

\* A random split of a network with a prefix of its own has returned a sub-network
\* that is neither its first nor its last.
C5_Witness ==
  /\ RandomDone
  /\ address.kind = "Ok"
  /\ ip.prefix >= 1
  /\ address.value.addr # network(ip)
  /\ broadcast(address.value) # broadcast(ip)

\* C6: random_split returns the network of prefix length n whose address has its
\* top p bits from the input address, its bits p+1..n (from the most significant)
\* from the drawn value r and its other bits zero; for p = 0 that is r with its
\* low BITS-n bits cleared.  182.37.233.188/16, n = 24, r = 34.86.183.34 gives
\* 182.37.183.0/24; 0.0.0.0/0, n = 24, r = 230.141.13.62 gives 230.141.13.0/24.
C6_RandomSplitBits ==
  /\ (RandomDone /\ address.kind = "Ok") =>
       /\ Len(rnd) = 1
       /\ address.value =
            Net([i \in 1..BitsOf(ip) |->
                   IF i <= ip.prefix THEN ip.addr[i]
                   ELSE IF i <= mask THEN rnd[1][i]
                   ELSE 0],
                mask)
  /\ (RandomDone /\ ip = Net(Ip4(182, 37, 233, 188), 16) /\ mask = 24
        /\ rnd = <<Ip4(34, 86, 183, 34)>>) =>
       address = Ok(Net(Ip4(182, 37, 183, 0), 24))
  /\ (RandomDone /\ ip = Net(Zero(V4BITS), 0) /\ mask = 24
        /\ rnd = <<Ip4(230, 141, 13, 62)>>) =>
       address = Ok(Net(Ip4(230, 141, 13, 0), 24))

\* 182.37.233.188/16 has been split to /24 with the drawn value 34.86.183.34.
C6_Witness ==
  /\ RandomDone
  /\ ip = Net(Ip4(182, 37, 233, 188), 16)
  /\ mask = 24
  /\ rnd = <<Ip4(34, 86, 183, 34)>>
  /\ address.kind = "Ok"

\* The networks of prefix length n inside net (all of that length when net's prefix is 0).
SubBlocks(net, n) ==
  {Net(a, n) : a \in {x \in Values(BitsOf(net)) :
                        InNetwork(x, net) /\ x = network(Net(x, n))}}

\* The drawn values for which random_split of net to n returns the block b.
DrawsGiving(net, n, b) ==
  {r \in random_range(BitsOf(net)) : generate_random_split(net, n, r).result = Ok(b)}

\* A random split of a network of the small family that passed the validation.
RandomDoneSmall ==
  pc = "done" /\ op = "random_split" /\ BitsOf(ip) = SmallBITS /\ ValidSplit

\* C7: when the network's prefix length is 0, for every n in 1..BITS and every
\* block of prefix length n in the address space, the all-ones block included,
\* some value in the range requested from the generator makes random_split
\* return that block.
C7_ZeroPrefixReachesEveryBlock ==
  (RandomDoneSmall /\ ip.prefix = 0) =>
    \A b \in SubBlocks(ip, mask) : DrawsGiving(ip, mask, b) # {}

\* C8: the value is drawn from the full range [0, MAX], and each sub-block of the
\* network is the result of random_split for the same number of drawn values.
C8_RandomSplitUniform ==
  RandomDoneSmall =>
    /\ random_range(BitsOf(ip)) = Values(BitsOf(ip))
    /\ \A b1, b2 \in SubBlocks(ip, mask) :
         Cardinality(DrawsGiving(ip, mask, b1)) = Cardinality(DrawsGiving(ip, mask, b2))

\* C9: while random_split runs, every left shift executed has an amount in
\* 0..BITS-1 and no subtraction computing it underflows: the shift by BITS - n
\* runs only when 1 <= n <= BITS, the shift by BITS - p only when p >= 1, and
\* there is no other shift.
C9_ShiftsInRange ==
  RandomDone =>
    /\ \A i \in 1..Len(shifts) : shifts[i] \in 0..(BitsOf(ip) - 1)
    /\ Len(shifts) <= 2
    /\ Len(shifts) >= 1 =>
         (1 <= mask /\ mask <= BitsOf(ip) /\ shifts[1] = BitsOf(ip) - mask)
    /\ Len(shifts) = 2 => (ip.prefix >= 1 /\ shifts[2] = BitsOf(ip) - ip.prefix)
    /\ (Len(shifts) = 0) = (address.kind = "Err")

\* A random split has shifted by the smallest and by the largest amount.
C9_Witness ==
  /\ RandomDone
  /\ shifts = <<0, BitsOf(ip) - 1>>

\* 2^(32-p) as a 32-bit value, u32::MAX where it does not fit.
SaturatedSize(p) ==
  IF p = 0 THEN MAX(V4BITS) ELSE [i \in 1..V4BITS |-> IF i = p THEN 1 ELSE 0]

SummaryDone == pc = "done" /\ IsV4 /\ op \in {"summarize", "print", "main"}

\* C10: for every IPv4 prefix length p, every addresses-in-network computation
\* (Ranges::addresses_in_network, Ipv4Subnet::print, main) yields 2^(32-p) where
\* that fits the 32-bit integer and u32::MAX when p = 0, and never panics nor
\* wraps to 0.
C10_AddressesSaturate ==
  SummaryDone =>
    /\ result.kind = "Ok"
    /\ \E i \in 1..Len(output) :
         /\ output[i].line = "Addresses in network"
         /\ output[i].value = SaturatedSize(ip.prefix)

\* The network whose summary has been written by Interface::summarize, directly
\* or for the network a random split chose, in a family that has usable_range.
RangesDone ==
  /\ pc = "done"
  /\ ~IsV6
  /\ \/ op = "summarize"
     \/ (RandomDone /\ address.kind = "Ok")

Summarized == IF op = "summarize" THEN ip ELSE address.value

UsableLines == {i \in 1..Len(output) : output[i].line = "Usable range"}

IsSuccessor(a, b) ==
  \E k \in 1..Len(a) :
    /\ a[k] = 0
    /\ b[k] = 1
    /\ \A j \in (k + 1)..Len(a) : a[j] = 1 /\ b[j] = 0
    /\ \A j \in 1..(k - 1) : a[j] = b[j]

\* A split whose subnet computation succeeded.
SplitProduced == SplitDone /\ ip.prefix <= mask /\ mask <= BitsOf(ip)

\* C12: the sequence split produces is in strictly increasing address order:
\* each next element starts at the previous element's broadcast address plus 1,
\* the first element starts at the input's network address and the last one
\* ends at the input's broadcast address.
C12_SplitOrdered ==
  SplitProduced =>
    LET ls == NetworkLines
        n == Len(ls)
    IN /\ n >= 1
       /\ ls[1].addr = network(ip)
       /\ ls[n].broadcast = broadcast(ip)
       /\ \A i \in 1..(n - 1) :
            /\ Less(ls[i].addr, ls[i + 1].addr)
            /\ IsSuccessor(ls[i].broadcast, ls[i + 1].addr)

\* 1.2.3.4/25 split to /28 has printed 1.2.3.0 - 1.2.3.15 and then 1.2.3.16 - 1.2.3.31.
C12_Witness ==
  /\ SplitProduced
  /\ ip = Net(Ip4(1, 2, 3, 4), 25)
  /\ mask = 28
  /\ NetworkLines[1] = [line |-> "Network", addr |-> Ip4(1, 2, 3, 0),
                        broadcast |-> Ip4(1, 2, 3, 15)]
  /\ NetworkLines[2] = [line |-> "Network", addr |-> Ip4(1, 2, 3, 16),
                        broadcast |-> Ip4(1, 2, 3, 31)]

\* C13: whenever usable_range is present it is the range from the network
\* address + 1 to the broadcast address - 1: neither end over- or underflows,
\* first <= last, both ends lie strictly inside the network range, and for a
\* prefix length of BITS-2 (a /30) it holds exactly 2 addresses.
C13_UsableRangeEnds ==
  RangesDone =>
    \A i \in UsableLines :
      LET net == Summarized
          BITS == BitsOf(net)
          lo == network(net)
          hi == broadcast(net)
          first == output[i].value[1]
          last == output[i].value[2]
      IN /\ output[i].value = usable_range(net).value
         /\ IsSuccessor(lo, first)
         /\ IsSuccessor(last, hi)
         /\ LessEq(first, last)
         /\ Less(lo, first)
         /\ Less(last, hi)
         /\ net.prefix = BITS - 2 => IsSuccessor(first, last)
         /\ BITS = SmallBITS =>
              /\ ToNat(first) = ToNat(lo) + 1
              /\ ToNat(last) = ToNat(hi) - 1
              /\ ToNat(last) - ToNat(first) + 1 = Pow2(BITS - net.prefix) - 2

\* 1.2.3.4/30 has been summarized with the usable range 1.2.3.5 - 1.2.3.6.
C13_Witness ==
  /\ RangesDone
  /\ op = "summarize"
  /\ ip = Net(Ip4(1, 2, 3, 4), 30)
  /\ output[Len(output)] =
       format_attribute("Usable range", <<Ip4(1, 2, 3, 5), Ip4(1, 2, 3, 6)>>)

\* An IPv6 split whose mask the subnet computation rejects.
Ipv6SplitRejected ==
  /\ pc = "done"
  /\ op = "ipv6_split"
  /\ (mask < ip.prefix \/ mask > V6BITS)

\* C14: for an IPv6 network, split with a mask the subnet computation rejects
\* (1234:5678::/64 split to 25) returns success, and the output is the two
\* header lines followed by exactly one "-[ERR : Oversized splitmask]" line
\* and no "Network - " line.
C14_Ipv6SplitReportsInOutput ==
  Ipv6SplitRejected =>
    /\ result = Ok(<<>>)
    /\ output = <<HeaderLine("ipv6", ip), SplitTitleLine, ErrLine>>
    /\ \A i \in 1..Len(output) : output[i].line # "Network"
    /\ Cardinality({i \in 1..Len(output) : output[i] = ErrLine}) = 1

\* 1234:5678::/64 has been split to 25.
C14_Witness ==
  /\ Ipv6SplitRejected
  /\ ip = Net(Ip6(4660, 22136, 0, 0, 0, 0, 0, 0), 64)
  /\ mask = 25
  /\ output[3] = ErrLine

\* A random split by one of the two family-specific implementations.
TypedRandomDone == pc = "done" /\ op \in {"ipv4_random_split", "ipv6_random_split"}

\* C15: the random-split algorithm is the same in every implementation: for
\* every network, new prefix length and drawn value, the generic
\* generate_random_split at BITS = 32 returns the same network or the same error
\* as the IPv4 random_split_generate_address, and at BITS = 128 the same as the
\* IPv6 one, after the same draws and the same shifts.
C15_RandomSplitSameEverywhere ==
  TypedRandomDone =>
    /\ BitsOf(ip) = (IF op = "ipv4_random_split" THEN V4BITS ELSE V6BITS)
    /\ \A r \in Draws(BitsOf(ip)) :
         (rnd = <<>> \/ rnd = <<r>>) =>
           \E g \in {generate_random_split(ip, mask, r)} :
             /\ g.result = address
             /\ g.rnd = rnd
             /\ g.shifts = shifts

\* The IPv6 implementation has split 7a18:549a:ecb0:5573:edfc:fa96:d303:ce5b/48
\* to /64 and returned a network.
C15_Witness ==
  /\ TypedRandomDone
  /\ op = "ipv6_random_split"
  /\ ip = Net(Ip6(31256, 21658, 60592, 21875, 60924, 64150, 54019, 52827), 48)
  /\ mask = 64
  /\ address.kind = "Ok"
  /\ address.value.prefix = 64

\* The summary the implementation that ran writes for a network.
SummaryOf(net) ==
  IF op = "ipv4_random_split" THEN ipv4_summarize(net)
  ELSE IF op = "ipv6_random_split" THEN ipv6_summarize(net)
  ELSE summarize(net)

\* C16: random_split validates before it draws or writes: when it fails (with
\* SplitSmallerThanPrefixLen or SplitTooBig) the generator has been called zero
\* times and nothing has been written; when it succeeds the generator has been
\* called exactly once and what has been written is the summary of the
\* generated address.
C16_ValidatesBeforeDrawing ==
  RandomDone =>
    IF result.kind = "Err"
    THEN /\ result.error \in {"SplitSmallerThanPrefixLen", "SplitTooBig"}
         /\ ~ValidSplit
         /\ rng_calls = 0
         /\ rnd = <<>>
         /\ output = <<>>
    ELSE /\ ValidSplit
         /\ rng_calls = 1
         /\ Len(rnd) = 1
         /\ address.kind = "Ok"
         /\ output # <<>>
         /\ output = SummaryOf(address.value)

\* The IPv4 implementation has refused to split 1.2.3.4/29 to /24 without a draw.
C16_Witness ==
  /\ RandomDone
  /\ op = "ipv4_random_split"
  /\ ip = Net(Ip4(1, 2, 3, 4), 29)
  /\ mask = 24
  /\ result = Err("SplitSmallerThanPrefixLen", 24, 29)
  /\ rng_calls = 0
  /\ output = <<>>

\* Addresses with the same first p bits as net's: all of them in the small
\* family, else the one whose other bits are all inverted.
SameNetworkAddresses(net) ==
  IF BitsOf(net) = SmallBITS
  THEN {a \in Values(SmallBITS) :
          \A i \in 1..net.prefix : a[i] = net.addr[i]}
  ELSE {[i \in 1..BitsOf(net) |->
           IF i <= net.prefix THEN net.addr[i] ELSE 1 - net.addr[i]]}

\* The split the implementation that ran computes for other arguments.
SplitOf(net, m) ==
  IF op = "ipv4_split" THEN ipv4_split(net, m)
  ELSE IF op = "ipv6_split" THEN ipv6_split(net, m)
  ELSE split(net, m)

\* The random split the implementation that ran computes for other arguments.
RandomSplitOf(net, split_len, r) ==
  IF op = "ipv4_random_split" THEN ipv4_random_split_generate_address(net, split_len, r)
  ELSE IF op = "ipv6_random_split" THEN ipv6_random_split_generate_address(net, split_len, r)
  ELSE generate_random_split(net, split_len, r)

\* C17: the results of split and random_split depend only on the input's masked
\* network address and prefix length: an input with the same prefix length whose
\* address differs only in bits beyond it gives the same split sequence and the
\* same result, and for the same new prefix length and drawn value the same
\* random_split result.
C17_OnlyNetworkBitsMatter ==
  /\ SplitDone =>
       \A a \in SameNetworkAddresses(ip) :
         \E s \in {SplitOf(Net(a, ip.prefix), mask)} :
           /\ s.result = result
           /\ SubSeq(s.output, 3, Len(s.output)) = NetworkLines
  /\ RandomDone =>
       \A a \in SameNetworkAddresses(ip) :
         \E g \in {RandomSplitOf(Net(a, ip.prefix), mask,
                                 IF rnd = <<>> THEN Zero(BitsOf(ip)) ELSE rnd[1])} :
           /\ g.result = address
           /\ g.rnd = rnd

\* 182.37.233.188/16, an address with bits set beyond its prefix, has been split
\* to /24 with the drawn value 33.25.245.44, giving 182.37.245.0/24.
C17_Witness ==
  /\ RandomDone
  /\ ip = Net(Ip4(182, 37, 233, 188), 16)
  /\ ip.addr # network(ip)
  /\ mask = 24
  /\ rnd = <<Ip4(33, 25, 245, 44)>>
  /\ address = Ok(Net(Ip4(182, 37, 245, 0), 24))

===========================================================================
